---- MODULE Spec2Model ----
(***************************************************************************)
(* Model of the Refinement_Ai backend: two provider handlers (DeepSeek,    *)
(* Moonshot), the sequential orchestrator with its single fallback, and    *)
(* the HTTP endpoint layer (/chat, streaming /chat, /compare).             *)
(*                                                                         *)
(* Texts are opaque: a text is an id in 0..NumTexts, 0 being the empty     *)
(* string.  Python values are records [k, s]: k is the JSON kind of the    *)
(* value and s the text id when k = "str".  Exceptions are records         *)
(* [type, msg].  Wall-clock time is counted in provider calls: every       *)
(* awaited provider call takes one tick.  The token_count and timestamp    *)
(* fields of a ModelOutput and the difflib results of /compare are         *)
(* functions of the contents and of the clock and are left out.            *)
(***************************************************************************)
EXTENDS Integers, Sequences, FiniteSets, TLC

NumTexts == 2

Texts == 0..NumTexts

Handlers == {"deepseek", "moonshot"}

Requests == {"r1", "r2"}

VARIABLES
    hpc, hName, hMessage, hResp, hOut,
    clients, endpoint, message, pc, model_outputs, primary_error, calls, result, http,
    spc, sMessage, deepseek_result, events

handlerVars == <<hpc, hName, hMessage, hResp, hOut>>

orchVars == <<clients, endpoint, message, pc, model_outputs, primary_error, calls, result, http>>

streamVars == <<spc, sMessage, deepseek_result, events>>

vars == <<handlerVars, orchVars, streamVars>>

----------------------------------------------------------------------------
(* Python values and exceptions                                            *)

Str(t) == [k |-> "str", s |-> t]

None == [k |-> "null", s |-> 0]

NonText(kind) == [k |-> kind, s |-> 0]

TextValues == {Str(t) : t \in Texts}

NonTextValues == {NonText(kind) : kind \in {"num", "arr", "obj"}}

IsText(v) == v.k = "str"

Exc(type, msg) == [type |-> type, msg |-> msg]

NoExc == Exc("", "")

Return(v) == [kind |-> "return", val |-> v, exc |-> NoExc]

Raise(e) == [kind |-> "raise", val |-> None, exc |-> e]

Pending == [kind |-> "pending", val |-> None, exc |-> NoExc]

ApiName(h) == IF h = "deepseek" THEN "DeepSeek" ELSE "Moonshot"

ModelName(h) == IF h = "deepseek" THEN "deepseek-reasoner" ELSE "moonshot-v1-8k"

----------------------------------------------------------------------------
(* Provider HTTP responses.  A JSON node on the path                       *)
(* response_data["choices"][0]["message"]["content"] is described by its   *)
(* kind and by has: for an object, whether it holds the key looked up; for *)
(* an array or a string, whether it is non-empty.                          *)

Node(kind, has) == [k |-> kind, has |-> has]

Nodes == {Node("null", FALSE), Node("num", FALSE)}
           \cup {Node(kind, has) : kind \in {"str", "arr", "obj"}, has \in BOOLEAN}

\* obj[key] for a string key
SubKey(d) ==
    IF d.k = "obj" THEN (IF d.has THEN "ok" ELSE "KeyError") ELSE "TypeError"

\* x[0]; the keys of a JSON object are strings, so 0 is never one of them
SubIdx0(d) ==
    CASE d.k \in {"arr", "str"} -> (IF d.has THEN "ok" ELSE "IndexError")
      [] d.k = "obj" -> "KeyError"
      [] OTHER -> "TypeError"

NoNode == Node("null", FALSE)

JsonBody(root, choices, first, msgNode, content) ==
    [root |-> root, choices |-> choices, first |-> first, message |-> msgNode,
     content |-> content]

NoBody == JsonBody(NoNode, NoNode, NoNode, NoNode, None)

\* One body per shape: the nodes below the first failing subscript are not
\* read by the code and are left at NoNode.  An element of a string is a
\* one-character string.
Bodies ==
    {JsonBody(r, NoNode, NoNode, NoNode, None) : r \in {d \in Nodes : SubKey(d) # "ok"}}
    \cup {JsonBody(Node("obj", TRUE), c, NoNode, NoNode, None) :
             c \in {d \in Nodes : SubIdx0(d) # "ok"}}
    \cup {JsonBody(Node("obj", TRUE), Node("arr", TRUE), f, NoNode, None) :
             f \in {d \in Nodes : SubKey(d) # "ok"}}
    \cup {JsonBody(Node("obj", TRUE), Node("str", TRUE), Node("str", TRUE), NoNode, None)}
    \cup {JsonBody(Node("obj", TRUE), Node("arr", TRUE), Node("obj", TRUE), m, None) :
             m \in {d \in Nodes : SubKey(d) # "ok"}}
    \cup {JsonBody(Node("obj", TRUE), Node("arr", TRUE), Node("obj", TRUE),
                   Node("obj", TRUE), v) :
             v \in TextValues \cup NonTextValues \cup {None}}

HttpResponse(transport, status, json, body) ==
    [transport |-> transport, status |-> status, json |-> json, body |-> body]

\* transport: the connection or the timeout failed; json: the body parses.
Responses ==
    {HttpResponse("fail", 0, FALSE, NoBody)}
    \cup {HttpResponse("ok", st, FALSE, NoBody) : st \in {404, 500}}
    \cup {HttpResponse("ok", 200, FALSE, NoBody)}
    \cup {HttpResponse("ok", 200, TRUE, b) : b \in Bodies}

\* The responses whose body has the documented shape with a text content.
TextResponse(t) ==
    HttpResponse("ok", 200, TRUE,
                 JsonBody(Node("obj", TRUE), Node("arr", TRUE), Node("obj", TRUE),
                          Node("obj", TRUE), Str(t)))

----------------------------------------------------------------------------
(* API handler                                                             *)

\* The subscripts in the order Python evaluates them; the first that fails
\* decides the exception.
ExtractPath(b) ==
    LET s == <<SubKey(b.root), SubIdx0(b.choices), SubKey(b.first), SubKey(b.message)>>
        bad == {i \in 1..4 : s[i] # "ok"}
    IN IF bad = {} THEN "ok"
       ELSE s[CHOOSE i \in bad : \A j \in bad : i <= j]

extract_response_text(h, b) ==
    LET p == ExtractPath(b)
    IN CASE p = "ok" -> Return(b.content)
         [] p \in {"KeyError", "IndexError"} ->
                Raise(Exc("ValueError", "Invalid response format from " \o ApiName(h) \o " API"))
         [] OTHER -> Raise(Exc(p, "not subscriptable"))

\* response.raise_for_status()
IsSuccess(status) == status \in 200..299

make_request(h, resp) ==
    CASE resp.transport # "ok" -> Raise(Exc("HTTPError", "transport"))
      [] resp.transport = "ok" /\ ~IsSuccess(resp.status) -> Raise(Exc("HTTPError", "status"))
      [] resp.transport = "ok" /\ IsSuccess(resp.status) /\ ~resp.json ->
             Raise(Exc("ValueError", "JSONDecodeError"))
      [] OTHER -> extract_response_text(h, resp.body)

\* The part of process_message after the awaited request.
process_message_result(h, resp) ==
    LET res == make_request(h, resp)
    IN IF res.kind = "return" /\ res.val = None
       THEN Raise(Exc("ValueError", ApiName(h) \o " API returned no response"))
       ELSE res

\* message[:100] in the log line that precedes the request.
\* A dict raises TypeError, or KeyError where slices are hashable.
SliceErrors(m) ==
    CASE m.k \in {"str", "arr"} -> {}
      [] m.k = "obj" -> {Exc("TypeError", "unhashable slice"), Exc("KeyError", "slice")}
      [] OTHER -> {Exc("TypeError", "not subscriptable")}

----------------------------------------------------------------------------
(* One handler call in isolation: process_message up to the awaited        *)
(* request, then from the response to the return or the raise.             *)

HandlerInit ==
    /\ hpc = "idle"
    /\ hName = "deepseek"
    /\ hMessage = Str(0)
    /\ hResp = HttpResponse("fail", 0, FALSE, NoBody)
    /\ hOut = Pending

HandlerSend(h, m) ==
    /\ hpc \in {"idle", "done"}
    /\ hpc' = "awaiting"
    /\ hName' = h
    /\ hMessage' = m
    /\ hOut' = Pending
    /\ UNCHANGED <<hResp, orchVars, streamVars>>

HandlerReceive(resp) ==
    /\ hpc = "awaiting"
    /\ hpc' = "done"
    /\ hResp' = resp
    /\ hOut' = process_message_result(hName, resp)
    /\ UNCHANGED <<hName, hMessage, orchVars, streamVars>>

HandlerNext ==
    \/ \E h \in Handlers, m \in TextValues : HandlerSend(h, m)
    \/ \E resp \in Responses : HandlerReceive(resp)

----------------------------------------------------------------------------
(* Orchestrator: AIChatOrchestrator.process_message, one coroutine per     *)
(* request.  A step runs from one await to the next.                       *)

\* Faulty variant: model_outputs lives on the shared orchestrator object.
FrameShared(r) == "r1"

\* model_outputs is a local of the coroutine: every request has its own.
Frame(r) == r

\* Faulty variant: step 2 is given the original message.
RefineInputOriginal(m, a) == m

\* Step 2 refines the output of step 1.
RefineInput(m, a) == a

\* Faulty variant: the fallback retries the reasoning handler.
FallbackHandlerReasoning == "deepseek"

\* The fallback is the refinement handler, on the original message.
FallbackHandler == "moonshot"

\* Faulty variant: the fallback reuses the reasoning output when there is one.
FallbackInputRefined(m, log) ==
    IF log[1].outcome.kind = "return" /\ IsText(log[1].outcome.val)
    THEN log[1].outcome.val
    ELSE m

FallbackInput(m, log) == m

Call(h, input, outcome) == [handler |-> h, input |-> input, outcome |-> outcome]

\* len(content.split()) needs a str.
SplitError(v) ==
    IF IsText(v) THEN NoExc ELSE Exc("AttributeError", "object has no attribute 'split'")

ModelOutput(h, content) ==
    [content |-> content, processing_time |-> 1, model_name |-> ModelName(h)]

\* The error a step ends with: the handler's, or the one raised while the
\* step builds its entry of model_outputs; NoExc when the step succeeds.
StepError(out) ==
    IF out.kind = "raise" THEN out.exc ELSE SplitError(out.val)

\* Faulty variant: recording an entry drops the entries recorded before.
PutAlone(outputs, h, content) == [n \in {h} |-> ModelOutput(h, content)]

Put(outputs, h, content) ==
    [n \in (DOMAIN outputs) \cup {h} |->
        IF n = h THEN ModelOutput(h, content) ELSE outputs[n]]

OrchReturn(primary, outputs, elapsed) ==
    [kind |-> "return", primary_response |-> primary, model_outputs |-> outputs,
     total_processing_time |-> elapsed, exc |-> NoExc, cause |-> NoExc, context |-> NoExc]

\* Faulty variant: a failed fallback returns an empty result.
OrchRaiseSilent(e, fallback_error) == OrchReturn(Str(0), <<>>, 0)

\* raise RuntimeError(...) from e, inside the handler of fallback_error:
\* __cause__ is e and __context__ is fallback_error.
OrchRaise(e, fallback_error) ==
    [kind |-> "raise", primary_response |-> None, model_outputs |-> <<>>,
     total_processing_time |-> 0,
     exc |-> Exc("RuntimeError", "Both primary and fallback processing failed"),
     cause |-> e, context |-> fallback_error]

OrchPending ==
    [kind |-> "pending", primary_response |-> None, model_outputs |-> <<>>,
     total_processing_time |-> 0, exc |-> NoExc, cause |-> NoExc, context |-> NoExc]

Complete(log, out) ==
    [log EXCEPT ![Len(log)] = Call(log[Len(log)].handler, log[Len(log)].input, out)]

----------------------------------------------------------------------------
(* HTTP endpoint layer: what chat_endpoint and compare_responses do with   *)
(* the orchestrator's return or raise.                                     *)

\* "Sorry, I encountered an error processing your request."
SorryText == Str(NumTexts + 1)

\* ModelOutput(**output_data): content and model_name must be str.
ValidOutputs(outputs) == \A n \in DOMAIN outputs : IsText(outputs[n].content)

ChatResponse(primary, outputs, status, error, elapsed) ==
    [code |-> 200, body |-> "ChatResponse", primary_response |-> primary,
     model_outputs |-> outputs, status |-> status, error |-> error,
     total_processing_time |-> elapsed]

HTTPException(status_code, detail) ==
    [code |-> status_code, body |-> "HTTPException", detail |-> detail]

\* similarity_score and differences are computed from the two contents by
\* difflib and are left out.
ComparisonResponse(outputs) ==
    [code |-> 200, body |-> "ComparisonResponse",
     deepseek_content |-> outputs["deepseek"].content,
     moonshot_content |-> outputs["moonshot"].content,
     processing_times |-> [n \in Handlers |-> outputs[n].processing_time]]

NoHttp == [code |-> 0, body |-> "none"]

\* Faulty variant: /chat lets the orchestrator's error through as an HTTP 500.
chat_endpoint_propagating(res) ==
    IF res.kind = "raise"
    THEN HTTPException(500, res.exc.msg)
    ELSE ChatResponse(res.primary_response, res.model_outputs, "success", "",
                      res.total_processing_time)

chat_endpoint(res) ==
    CASE res.kind = "raise" -> ChatResponse(SorryText, <<>>, "error", res.exc.msg, 0)
      [] res.kind = "return" /\ ~ValidOutputs(res.model_outputs) ->
             ChatResponse(SorryText, <<>>, "error", "validation error", 0)
      [] OTHER -> ChatResponse(res.primary_response, res.model_outputs, "success", "",
                               res.total_processing_time)

\* Faulty variant: /compare reads a missing entry as an empty content.
compare_responses_lenient(res) ==
    IF res.kind = "raise"
    THEN HTTPException(500, res.exc.msg)
    ELSE [code |-> 200, body |-> "ComparisonResponse",
          deepseek_content |-> IF "deepseek" \in DOMAIN res.model_outputs
                               THEN res.model_outputs["deepseek"].content ELSE Str(0),
          moonshot_content |-> IF "moonshot" \in DOMAIN res.model_outputs
                               THEN res.model_outputs["moonshot"].content ELSE Str(0),
          processing_times |-> <<>>]

compare_responses(res) ==
    CASE res.kind = "raise" -> HTTPException(500, res.exc.msg)
      [] res.kind = "return" /\ "deepseek" \notin DOMAIN res.model_outputs ->
             HTTPException(500, "'deepseek'")
      [] res.kind = "return" /\ "deepseek" \in DOMAIN res.model_outputs
            /\ "moonshot" \notin DOMAIN res.model_outputs ->
             HTTPException(500, "'moonshot'")
      [] OTHER -> ComparisonResponse(res.model_outputs)

Respond(ep, res) ==
    IF ep = "chat" THEN chat_endpoint(res) ELSE compare_responses(res)

----------------------------------------------------------------------------
(* Requests through /chat (stream = False) and /compare                    *)

OrchInit(cs) ==
    /\ clients = cs
    /\ endpoint = [r \in Requests |-> "none"]
    /\ message = [r \in Requests |-> Str(0)]
    /\ pc = [r \in Requests |-> "idle"]
    /\ model_outputs = [r \in Requests |-> <<>>]
    /\ primary_error = [r \in Requests |-> NoExc]
    /\ calls = [r \in Requests |-> <<>>]
    /\ result = [r \in Requests |-> OrchPending]
    /\ http = [r \in Requests |-> NoHttp]

\* process_message runs to its first await.
Begin(r, m) ==
    /\ r \in clients
    /\ pc[r] = "idle"
    /\ message' = [message EXCEPT ![r] = m]
    /\ model_outputs' = [model_outputs EXCEPT ![Frame(r)] = <<>>]
    /\ calls' = [calls EXCEPT ![r] = <<Call("deepseek", m, Pending)>>]
    /\ pc' = [pc EXCEPT ![r] = "await_deepseek"]
    /\ UNCHANGED <<clients, primary_error, result, http, handlerVars, streamVars>>

\* POST /chat with stream = False
ChatEndpoint(r, m) ==
    /\ endpoint' = [endpoint EXCEPT ![r] = "chat"]
    /\ Begin(r, m)

\* POST /compare
CompareEndpoint(r, m) ==
    /\ endpoint' = [endpoint EXCEPT ![r] = "compare"]
    /\ Begin(r, m)

\* except Exception as e: the fallback call starts.
StartFallback(r, out, e) ==
    /\ primary_error' = [primary_error EXCEPT ![r] = e]
    /\ calls' = [calls EXCEPT ![r] =
                    Append(Complete(@, out),
                           Call(FallbackHandler, FallbackInput(message[r], @), Pending))]
    /\ pc' = [pc EXCEPT ![r] = "await_fallback"]
    /\ UNCHANGED <<model_outputs, result, http>>

\* return {...}: the endpoint that awaited process_message answers.
Finish(r, out, res) ==
    /\ calls' = [calls EXCEPT ![r] = Complete(@, out)]
    /\ result' = [result EXCEPT ![r] = res]
    /\ http' = [http EXCEPT ![r] = Respond(endpoint[r], res)]
    /\ pc' = [pc EXCEPT ![r] = "done"]

\* Step 1 ends.
DeepseekReturns(r, resp) ==
    LET out == process_message_result("deepseek", resp)
        e == StepError(out)
    IN /\ pc[r] = "await_deepseek"
       /\ IF e = NoExc
          THEN /\ model_outputs' = [model_outputs EXCEPT
                                       ![Frame(r)] = Put(@, "deepseek", out.val)]
               /\ calls' = [calls EXCEPT ![r] =
                               Append(Complete(@, out),
                                      Call("moonshot", RefineInput(message[r], out.val),
                                           Pending))]
               /\ pc' = [pc EXCEPT ![r] = "await_moonshot"]
               /\ UNCHANGED <<primary_error, result, http>>
          ELSE StartFallback(r, out, e)
       /\ UNCHANGED <<clients, endpoint, message, handlerVars, streamVars>>

\* Step 2 ends.
MoonshotReturns(r, resp) ==
    LET out == process_message_result("moonshot", resp)
        e == StepError(out)
    IN /\ pc[r] = "await_moonshot"
       /\ IF e = NoExc
          THEN /\ model_outputs' = [model_outputs EXCEPT
                                       ![Frame(r)] = Put(@, "moonshot", out.val)]
               /\ Finish(r, out, OrchReturn(out.val, model_outputs'[Frame(r)],
                                            Len(calls[r])))
               /\ UNCHANGED primary_error
          ELSE StartFallback(r, out, e)
       /\ UNCHANGED <<clients, endpoint, message, handlerVars, streamVars>>

\* The fallback call ends.
FallbackReturns(r, resp) ==
    LET out == process_message_result(FallbackHandler, resp)
        fallback_error == StepError(out)
    IN /\ pc[r] = "await_fallback"
       /\ IF fallback_error = NoExc
          THEN /\ model_outputs' = [model_outputs EXCEPT
                                       ![Frame(r)] = Put(@, "moonshot", out.val)]
               /\ Finish(r, out, OrchReturn(out.val, model_outputs'[Frame(r)],
                                            Len(calls[r])))
          ELSE /\ Finish(r, out, OrchRaise(primary_error[r], fallback_error))
               /\ UNCHANGED model_outputs
       /\ UNCHANGED <<clients, endpoint, message, primary_error, handlerVars, streamVars>>

----------------------------------------------------------------------------
(* Streaming /chat (stream = True): the generator stream_chat_response.    *)
(* events is the sequence of JSON lines yielded so far.                    *)

Event(type, model, content, error) ==
    [type |-> type, model |-> model, content |-> content, error |-> error]

StatusEvent(model) == Event("status", model, None, "")

ModelOutputEvent(model, content) == Event("model_output", model, content, "")

CompleteEvent == Event("complete", "", None, "")

ErrorEvent(e) == Event("error", "", None, e.msg)

\* Faulty variant: the second stage is not announced.
BetweenCallsUnannounced(content) == <<ModelOutputEvent("deepseek", content)>>

\* What the generator yields between the two provider calls.
BetweenCalls(content) == <<ModelOutputEvent("deepseek", content), StatusEvent("moonshot")>>

\* What it yields after the second call returned.
AfterCalls(content) == <<ModelOutputEvent("moonshot", content), CompleteEvent>>

StreamInit ==
    /\ spc = "idle"
    /\ sMessage = Str(0)
    /\ deepseek_result = None
    /\ events = <<>>

StreamStart(m) ==
    /\ spc = "idle"
    /\ sMessage' = m
    /\ events' = <<StatusEvent("deepseek")>>
    /\ spc' = "await_deepseek"
    /\ UNCHANGED <<deepseek_result, handlerVars, orchVars>>

StreamDeepseekReturns(resp) ==
    LET out == process_message_result("deepseek", resp)
    IN /\ spc = "await_deepseek"
       /\ IF out.kind = "raise"
          THEN /\ events' = Append(events, ErrorEvent(out.exc))
               /\ spc' = "done"
               /\ UNCHANGED deepseek_result
          ELSE /\ deepseek_result' = out.val
               /\ IF SliceErrors(out.val) = {}
                  THEN /\ events' = events \o BetweenCalls(out.val)
                       /\ spc' = "await_moonshot"
                  ELSE /\ \E e \in SliceErrors(out.val) :
                              events' = (events \o BetweenCalls(out.val)) \o <<ErrorEvent(e)>>
                       /\ spc' = "done"
       /\ UNCHANGED <<sMessage, handlerVars, orchVars>>

StreamMoonshotReturns(resp) ==
    LET out == process_message_result("moonshot", resp)
    IN /\ spc = "await_moonshot"
       /\ events' = IF out.kind = "raise"
                     THEN Append(events, ErrorEvent(out.exc))
                     ELSE events \o AfterCalls(out.val)
       /\ spc' = "done"
       /\ UNCHANGED <<sMessage, deepseek_result, handlerVars, orchVars>>

----------------------------------------------------------------------------
(* Specifications                                                          *)

\* One request through /chat or /compare, any provider response.
Init == HandlerInit /\ OrchInit({"r1"}) /\ StreamInit

Next ==
    \/ \E r \in Requests, m \in TextValues : ChatEndpoint(r, m)
    \/ \E r \in Requests, m \in TextValues : CompareEndpoint(r, m)
    \/ \E r \in Requests, resp \in Responses : DeepseekReturns(r, resp)
    \/ \E r \in Requests, resp \in Responses : MoonshotReturns(r, resp)
    \/ \E r \in Requests, resp \in Responses : FallbackReturns(r, resp)

Spec == Init /\ [][Next]_vars

\* One handler call.
SpecHandler == Init /\ [][HandlerNext]_vars

\* One streaming request.
StreamNext ==
    \/ \E m \in TextValues : StreamStart(m)
    \/ \E resp \in Responses : StreamDeepseekReturns(resp)
    \/ \E resp \in Responses : StreamMoonshotReturns(resp)

SpecStream == Init /\ [][StreamNext]_vars

\* Two requests whose steps interleave at the awaits.  The providers answer
\* with a text or with a transport failure.
ConcResponses == {TextResponse(t) : t \in Texts} \cup {HttpResponse("fail", 0, FALSE, NoBody)}

ConcInit == HandlerInit /\ OrchInit(Requests) /\ StreamInit

ConcNext ==
    \/ \E r \in Requests, m \in TextValues : ChatEndpoint(r, m)
    \/ \E r \in Requests, m \in TextValues : CompareEndpoint(r, m)
    \/ \E r \in Requests, resp \in ConcResponses : DeepseekReturns(r, resp)
    \/ \E r \in Requests, resp \in ConcResponses : MoonshotReturns(r, resp)
    \/ \E r \in Requests, resp \in ConcResponses : FallbackReturns(r, resp)

SpecConc == ConcInit /\ [][ConcNext]_vars

----------------------------------------------------------------------------
(* Vocabulary of the properties.  A call succeeded when the handler        *)
(* returned a text, as its contract says; it failed when it raised or      *)
(* returned anything else.                                                 *)

Succeeded(c) == c.outcome.kind = "return" /\ IsText(c.outcome.val)

Failed(c) == c.outcome.kind # "pending" /\ ~Succeeded(c)

Output(c) == c.outcome.val

Returned(r) == pc[r] = "done" /\ result[r].kind = "return"

Raised(r) == pc[r] = "done" /\ result[r].kind = "raise"

Content(outputs, n) == outputs[n].content

----------------------------------------------------------------------------
(* Orchestrator contract                                                   *)

\* C1: when the reasoning call on the message succeeds with output a and
\* the refinement call on a succeeds with output b, process_message returns
\* primary_response = b with a 'deepseek' entry of content a and a
\* 'moonshot' entry of content b; the refinement call's input is exactly
\* the reasoning call's output.
C1_Composition ==
    \A r \in Requests :
        (Len(calls[r]) >= 1 /\ Succeeded(calls[r][1])) =>
            /\ calls[r][1] = Call("deepseek", message[r], calls[r][1].outcome)
            /\ Len(calls[r]) >= 2
            /\ calls[r][2].handler = "moonshot"
            /\ calls[r][2].input = Output(calls[r][1])
            /\ Succeeded(calls[r][2]) =>
                   /\ Returned(r)
                   /\ result[r].primary_response = Output(calls[r][2])
                   /\ DOMAIN result[r].model_outputs = {"deepseek", "moonshot"}
                   /\ Content(result[r].model_outputs, "deepseek") = Output(calls[r][1])
                   /\ Content(result[r].model_outputs, "moonshot") = Output(calls[r][2])
                   /\ Len(calls[r]) = 2

C1_Witness ==
    /\ Returned("r1")
    /\ Len(calls["r1"]) = 2
    /\ Succeeded(calls["r1"][1]) /\ Succeeded(calls["r1"][2])
    /\ Output(calls["r1"][1]) # message["r1"]
    /\ Output(calls["r1"][2]) # Output(calls["r1"][1])
    /\ result["r1"].primary_response = Output(calls["r1"][2])

\* C2: when the reasoning call fails, the refinement handler is invoked on
\* the original message, and when that call succeeds its output is returned
\* as primary_response with the 'moonshot' entry as the only entry.
C2_ReasoningFails ==
    \A r \in Requests :
        (Len(calls[r]) >= 1 /\ Failed(calls[r][1])) =>
            /\ Len(calls[r]) = 2
            /\ calls[r][2].handler = "moonshot"
            /\ calls[r][2].input = message[r]
            /\ Succeeded(calls[r][2]) =>
                   /\ Returned(r)
                   /\ result[r].primary_response = Output(calls[r][2])
                   /\ DOMAIN result[r].model_outputs = {"moonshot"}
                   /\ Content(result[r].model_outputs, "moonshot") = Output(calls[r][2])

C2_Witness ==
    /\ Returned("r1")
    /\ Failed(calls["r1"][1])
    /\ calls["r1"][1].outcome.exc.type = "HTTPError"
    /\ Succeeded(calls["r1"][2])
    /\ DOMAIN result["r1"].model_outputs = {"moonshot"}

\* C3: when the primary sequence and the fallback call both fail,
\* process_message returns nothing: it raises a failure whose cause is the
\* error of the primary path and whose context is the error of the
\* fallback path.
C3_BothFail ==
    \A r \in Requests :
        \A i \in 1..Len(calls[r]) :
            (i < Len(calls[r]) /\ Failed(calls[r][i]) /\ Failed(calls[r][Len(calls[r])])) =>
                /\ Raised(r)
                /\ result[r].exc.type = "RuntimeError"
                /\ result[r].cause = StepError(calls[r][i].outcome)
                /\ result[r].context = StepError(calls[r][Len(calls[r])].outcome)
                /\ result[r].cause # NoExc
                /\ result[r].context # NoExc

C3_Witness ==
    /\ Raised("r1")
    /\ Len(calls["r1"]) = 3
    /\ Succeeded(calls["r1"][1])
    /\ result["r1"].cause.type = "HTTPError"
    /\ result["r1"].context.type = "ValueError"

\* C5: a failure of step 1 or of step 2 is followed by exactly one more
\* call, the refinement handler on the original message; the reasoning
\* handler is called at most once, the refinement handler at most twice,
\* and the fallback call is the last call of the run.
C5_SingleFallback ==
    \A r \in Requests :
        LET log == calls[r]
            n == Len(log)
        IN /\ Cardinality({i \in 1..n : log[i].handler = "deepseek"}) <= 1
           /\ Cardinality({i \in 1..n : log[i].handler = "moonshot"}) <= 2
           /\ \A i \in 1..n : log[i].outcome.kind = "pending" => i = n /\ pc[r] # "done"
           /\ \A i \in 1..n :
                  Failed(log[i]) =>
                      \/ i = n /\ pc[r] = "done" /\ \E j \in 1..(n - 1) : Failed(log[j])
                      \/ /\ i + 1 = n
                         /\ \A j \in 1..(i - 1) : Succeeded(log[j])
                         /\ log[n].handler = "moonshot"
                         /\ log[n].input = message[r]
           /\ (\A i \in 1..n : ~Failed(log[i])) => n <= 2

C5_Witness ==
    /\ pc["r1"] = "done"
    /\ Len(calls["r1"]) = 3
    /\ Succeeded(calls["r1"][1])
    /\ Output(calls["r1"][1]) # message["r1"]
    /\ Failed(calls["r1"][2])
    /\ calls["r1"][3].input = message["r1"]

\* C9: when step 1 succeeds with a, step 2 fails and the fallback succeeds
\* with f, the result has primary_response = f, the 'deepseek' entry of
\* step 1 and a 'moonshot' entry of content f; in every returned result the
\* 'moonshot' content is primary_response.
C9_FallbackKeepsReasoning ==
    \A r \in Requests :
        /\ (/\ Len(calls[r]) = 3
            /\ Succeeded(calls[r][1]) /\ Failed(calls[r][2]) /\ Succeeded(calls[r][3])) =>
               /\ Returned(r)
               /\ result[r].primary_response = Output(calls[r][3])
               /\ DOMAIN result[r].model_outputs = {"deepseek", "moonshot"}
               /\ Content(result[r].model_outputs, "deepseek") = Output(calls[r][1])
               /\ Content(result[r].model_outputs, "moonshot") = Output(calls[r][3])
        /\ Returned(r) =>
               /\ "moonshot" \in DOMAIN result[r].model_outputs
               /\ Content(result[r].model_outputs, "moonshot") = result[r].primary_response

\* The 'moonshot' entry is the refinement of the message, not of the
\* 'deepseek' content of the same result.
C9_Witness ==
    /\ Returned("r1")
    /\ Len(calls["r1"]) = 3
    /\ Content(result["r1"].model_outputs, "deepseek") # message["r1"]
    /\ calls["r1"][3].input = message["r1"]
    /\ Content(result["r1"].model_outputs, "moonshot") = Output(calls["r1"][3])

----------------------------------------------------------------------------
(* HTTP boundary                                                           *)

\* C6: /chat answers a ChatResponse in every case: status "error" with the
\* error message, no model_outputs and total_processing_time 0 when the
\* orchestrator raised, status "success" exactly when it returned a result;
\* /compare answers HTTP 500 on any error.
C6_BoundaryTranslation ==
    \A r \in Requests :
        pc[r] = "done" =>
            /\ endpoint[r] = "chat" =>
                   /\ http[r].code = 200
                   /\ http[r].body = "ChatResponse"
                   /\ http[r].status \in {"success", "error"}
                   /\ http[r].status = "success" <=> result[r].kind = "return"
                   /\ result[r].kind = "raise" =>
                          /\ http[r].error = result[r].exc.msg
                          /\ http[r].error # ""
                          /\ http[r].model_outputs = <<>>
                          /\ http[r].total_processing_time = 0
                   /\ result[r].kind = "return" =>
                          /\ http[r].primary_response = result[r].primary_response
                          /\ http[r].model_outputs = result[r].model_outputs
            /\ (/\ endpoint[r] = "compare"
                /\ \/ result[r].kind = "raise"
                   \/ DOMAIN result[r].model_outputs # {"deepseek", "moonshot"}) =>
                   /\ http[r].code = 500
                   /\ http[r].body = "HTTPException"

C6_Witness ==
    /\ Raised("r1")
    /\ endpoint["r1"] = "chat"
    /\ http["r1"].code = 200
    /\ http["r1"].status = "error"

\* C10: /compare answers HTTP 500 whenever the reasoning call failed, also
\* when the fallback succeeded and the orchestrator returned a result; when
\* the reasoning call and the last call (the refinement or the fallback)
\* succeeded it answers the contents of the two entries.
C10_CompareNeedsBoth ==
    \A r \in Requests :
        (pc[r] = "done" /\ endpoint[r] = "compare") =>
            LET last == calls[r][Len(calls[r])]
            IN /\ Failed(calls[r][1]) => http[r].code = 500
               /\ (Succeeded(calls[r][1]) /\ Succeeded(last)) =>
                      /\ http[r].code = 200
                      /\ http[r].body = "ComparisonResponse"
                      /\ http[r].deepseek_content = Output(calls[r][1])
                      /\ http[r].moonshot_content = Output(last)
               /\ http[r].code = 200 <=>
                      (Returned(r) /\ DOMAIN result[r].model_outputs = {"deepseek", "moonshot"})

C10_Witness ==
    /\ Returned("r1")
    /\ endpoint["r1"] = "compare"
    /\ Failed(calls["r1"][1])
    /\ Succeeded(calls["r1"][2])
    /\ http["r1"].code = 500

----------------------------------------------------------------------------
(* Streaming                                                               *)

Shape(e) == <<e.type, e.model>>

FullOrder ==
    <<Shape(StatusEvent("deepseek")), <<"model_output", "deepseek">>,
      Shape(StatusEvent("moonshot")), <<"model_output", "moonshot">>,
      Shape(CompleteEvent)>>

InOrder(evs) ==
    /\ Len(evs) <= Len(FullOrder)
    /\ \A i \in 1..Len(evs) : Shape(evs[i]) = FullOrder[i]

Terminal(e) == e.type \in {"complete", "error"}

\* C4: the events are emitted in the order status(deepseek),
\* model_output(deepseek), status(moonshot), model_output(moonshot),
\* complete, or a proper prefix of that order followed by one error event;
\* a terminal event is the last event, a finished run has exactly one, and
\* the model_output of a model comes after the status of that model.
C4_StreamOrder ==
    LET n == Len(events)
    IN /\ \/ InOrder(events)
          \/ /\ n >= 1
             /\ events[n].type = "error"
             /\ n - 1 < Len(FullOrder)
             /\ InOrder(SubSeq(events, 1, n - 1))
       /\ \A i \in 1..n : Terminal(events[i]) => i = n /\ spc = "done"
       /\ spc = "done" => n >= 1 /\ Terminal(events[n])
       /\ \A i \in 1..n :
              events[i].type = "model_output" =>
                  \E j \in 1..(i - 1) :
                      events[j].type = "status" /\ events[j].model = events[i].model

C4_Witness ==
    /\ spc = "done"
    /\ Len(events) = 4
    /\ events[3] = StatusEvent("moonshot")
    /\ events[4].type = "error"

----------------------------------------------------------------------------
(* Handler contract                                                        *)

WellFormed(resp) ==
    /\ resp.json
    /\ ExtractPath(resp.body) = "ok"
    /\ IsText(resp.body.content)

\* C7: a handler call returns the text of the first choice's message
\* content or fails; it fails with the transport error on a transport
\* failure and on a non-2xx status, and with the response-format error on
\* every body that is not of the documented shape; it never returns a
\* value that is not a text.
C7_HandlerContract ==
    hpc = "done" =>
        /\ hOut.kind \in {"return", "raise"}
        /\ hOut.kind = "return" =>
               /\ IsText(hOut.val)
               /\ WellFormed(hResp)
               /\ hOut.val = hResp.body.content
        /\ (hResp.transport # "ok" \/ ~IsSuccess(hResp.status)) =>
               /\ hOut.kind = "raise"
               /\ hOut.exc.type = "HTTPError"
        /\ (hResp.transport = "ok" /\ IsSuccess(hResp.status) /\ ~WellFormed(hResp)) =>
               /\ hOut.kind = "raise"
               /\ hOut.exc.type = "ValueError"

----------------------------------------------------------------------------
(* Concurrent requests                                                     *)

ExpectedOutputs(log) ==
    LET n == Len(log)
        named == (IF Succeeded(log[1]) THEN {"deepseek"} ELSE {})
                   \cup (IF n >= 2 /\ Succeeded(log[n]) THEN {"moonshot"} ELSE {})
    IN [h \in named |-> ModelOutput(h, IF h = "deepseek" THEN Output(log[1]) ELSE Output(log[n]))]

\* C8: the calls of one request are sequential: a call starts when the call
\* before it has completed, and its input is the request's own message or
\* the output of the request's own reasoning call.  A request's result is
\* determined by its own message and the outcomes of its own calls, under
\* every interleaving with the other request.
C8_Independent ==
    \A r \in Requests :
        LET log == calls[r]
            n == Len(log)
        IN /\ \A i \in 1..n : i < n => log[i].outcome.kind # "pending"
           /\ \A i \in 1..n :
                  \/ log[i].input = message[r]
                  \/ i = 2 /\ Succeeded(log[1]) /\ log[i].input = Output(log[1])
           /\ pc[r] = "done" =>
                  IF Succeeded(log[n])
                  THEN result[r] = OrchReturn(Output(log[n]), ExpectedOutputs(log), n)
                  ELSE result[r].kind = "raise"

\* Both requests are in flight together and one of them has failed over.
C8_Witness ==
    /\ pc["r1"] = "await_moonshot"
    /\ pc["r2"] = "await_fallback"
    /\ message["r1"] # message["r2"]
    /\ model_outputs["r1"] # model_outputs["r2"]

====
